---- MODULE Spec2Model ----
(***************************************************************************)
(* Model of the submit-then-poll generator create_talk of app.py, of the    *)
(* transport client DIDClient it drives, of the configuration handlers     *)
(* load_config and save_config_handler, and of download_video.             *)
(*                                                                         *)
(* A generator runs from one suspension point to the next: a `yield`      *)
(* hands one update to the consumer, a network call blocks until the       *)
(* remote service answers or the call raises.  Each action below is one    *)
(* such segment; pc names the line at which the generator is parked.       *)
(***************************************************************************)
EXTENDS Integers, Sequences, FiniteSets, TLC

VARIABLES
    API_KEY,        \* module global API_KEY (app.py:34)
    args,           \* the positional inputs of create_talk (app.py:445-449)
    pc,             \* where the generator is parked
    payload,        \* local `payload`
    talk,           \* local `talk`, the createJob response
    talk_id,        \* local `talk_id`
    start_time,     \* local `start_time`
    clock,          \* the value time.time() returns
    talk_status,    \* local `talk_status`, the last getJob response
    current_status, \* local `current_status`
    response_log,   \* local `response_log`
    e,              \* the exception bound by `except Exception as e`
    updates,        \* the tuples yielded so far, in order
    emitted,        \* per update: the clock and the call counts at its yield
    createCalls,    \* number of POST /talks requests issued
    getCalls,       \* number of GET /talks/{id} requests issued
    pollResponses,  \* the getJob responses received, in order
    BASE_URL,       \* module global BASE_URL (app.py:35)
    headers,        \* client.headers, set by DIDClient.__init__
    requests,       \* the HTTP requests of the run, in order
    closedAfter,    \* updates received when the consumer closed the generator
    config_file,    \* the text of api_config.json
    loaded,         \* what the last load_config() returned
    last_save,      \* the last save_config_handler call and the state before it
    clock_frac,     \* tenths of a second of time.time() beyond `clock`
    files,          \* the files under d-id_videos, by path
    dl_pc,          \* where download_video is
    dl_url,         \* its argument `url`
    dl_filename,    \* its local `filename`
    dl_result,      \* the tuple it returned last
    dl_history,     \* the invocations of download_video so far
    dh_pc,          \* where download_handler is parked
    dh_url,         \* the argument of download_handler
    dh_updates,     \* what download_handler has yielded
    dh_calls,       \* calls of download_video made by this download_handler
    active,         \* which of two create_talk generators the run variables show
    otherRun        \* the locals of the other create_talk generator

cfgVars == <<config_file, loaded, last_save>>

runVars == <<args, pc, payload, talk, talk_id, start_time, clock, talk_status,
             current_status, response_log, e, updates, emitted, createCalls,
             getCalls, pollResponses, headers, requests, closedAfter>>

twoVars == <<active, otherRun>>

dhVars == <<dh_pc, dh_url, dh_updates, dh_calls>>

dlVars == <<clock_frac, files, dl_pc, dl_url, dl_filename, dl_result, dl_history,
            dhVars>>

vars == <<API_KEY, args, pc, payload, talk, talk_id, start_time, clock,
          talk_status, current_status, response_log, e, updates, emitted,
          createCalls, getCalls, pollResponses, BASE_URL, headers, requests,
          closedAfter, cfgVars, dlVars, twoVars>>

-----------------------------------------------------------------------------
(* Bounds and program constants *)

MaxPolls == 3        \* getJob calls explored per run
MaxSaves == 2        \* save_config_handler calls explored
MaxSharedSaves == 1  \* save_config_handler calls explored during one run
MaxFetches == 3      \* download_video calls explored
MaxChunks == 2       \* chunks written per download
MaxTwoRunPolls == 2  \* getJob calls explored per run when two runs interleave

timeout == 300       \* app.py:389
poll_interval == 2   \* app.py:390

-----------------------------------------------------------------------------
(* Python values *)

\* A value that is absent: Python's None, and a local not yet assigned.
None == "<None>"
Unbound == "<unbound>"

\* dict.get(key, default)
Get(d, k, default) == IF k \in DOMAIN d THEN d[k] ELSE default

EmptyDict == [k \in {} |-> None]

\* Payload values are tagged, since a dict holds strings, booleans, None and
\* nested dicts side by side.
Str(s)  == [t |-> "str",  v |-> s]
Bool(b) == [t |-> "bool", v |-> b]
Dict(d) == [t |-> "dict", v |-> d]
NoneV   == [t |-> "none", v |-> None]

IsNone(x) == x.t = "none"

\* {k: v for k, v in d.items() if v is not None}
DropNone(d) == [k \in {j \in DOMAIN d : ~IsNone(d[j])} |-> d[k]]

\* json.dumps(d, indent=2): the keys in order, each with its value.
KeyOrder == <<"id", "status", "result_url">>

JsonDumps(d) ==
    LET present == SelectSeq(KeyOrder, LAMBDA k : k \in DOMAIN d)
    IN  [i \in 1..Len(present) |-> <<present[i], d[present[i]]>>]

-----------------------------------------------------------------------------
(* Inputs *)

ScriptTypes == {"text", "audio"}

\* The twelve inputs of the form, by name (app.py:445-449).  An unset
\* textbox or dropdown is the empty string, an unset checkbox is FALSE.
AllArgs ==
    [source_url     : {"https://x/a.jpg"},
     script_type    : ScriptTypes,
     text_input     : {"Hi"},
     audio_url      : {"https://x/a.mp3"},
     voice_provider : {"microsoft"},
     voice_id       : {"en-US-JennyNeural"},
     voice_style    : {"", "Cheerful"},
     driver_url     : {"", "bank://lively/driver-01"},
     webhook        : {"", "https://x/hook"},
     stitch         : BOOLEAN,
     persist        : BOOLEAN]

\* Two requests: a text script with every option set, an audio script with
\* none.
SomeArgs ==
    {a \in AllArgs :
        \/ /\ a.script_type = "text"
           /\ a.voice_style # "" /\ a.driver_url # "" /\ a.webhook # ""
           /\ a.stitch /\ a.persist
        \/ /\ a.script_type = "audio"
           /\ a.voice_style = "" /\ a.driver_url = "" /\ a.webhook = ""
           /\ ~a.stitch /\ ~a.persist}

ApiKeys == {"", "key"}

\* createJob responses: with an id, with an empty id, without an id.
CreateResponses ==
    { [id |-> "tlk_1", status |-> "created"],
      [id |-> "", status |-> "created"],
      [status |-> "created"] }

ResultUrl == "https://x/out.mp4"

\* getJob responses: a status (or none) and a result_url (or none).
PollResponses ==
    { [status |-> "created"],
      [status |-> "started"],
      [status |-> "started", result_url |-> ResultUrl],
      [status |-> "done", result_url |-> ResultUrl],
      [status |-> "done", result_url |-> ""],
      [status |-> "done"],
      [status |-> "error"],
      [status |-> "failed"],
      [status |-> "rejected"],
      [result_url |-> ""] }

\* What a network call raises: a transport error carries no response, an
\* HTTP error (raise_for_status) carries the non-2xx response.
NoResponse == [status_code |-> 0, text |-> None]

\* `e` before any exception was caught
NoException == [msg |-> "", has_response |-> FALSE, response |-> NoResponse]

Exceptions ==
    { [msg |-> "ConnectionError", has_response |-> FALSE, response |-> NoResponse],
      [msg |-> "400 Client Error", has_response |-> TRUE,
       response |-> [status_code |-> 400, text |-> "{\"kind\":\"BadRequest\"}"]] }

\* How long a getJob call blocks, and how long the generator may stall
\* between taking start_time and first testing the deadline.
Durations == {0, timeout \div 2, timeout - 1}
StartupStalls == {0, timeout}

-----------------------------------------------------------------------------
(* Truthiness *)

\* A test that takes the empty string for a value
Truthy_NotNone(s) == s # None

\* `if s` for a string or None
Truthy(s) == s # None /\ s # ""

\* requests.Response.__bool__ is Response.ok: no 4xx or 5xx status
ResponseOk(r) == ~(400 <= r.status_code /\ r.status_code < 600)

\* `hasattr(e, 'response') and e.response`
HasTruthyResponse(exc) == exc.has_response /\ ResponseOk(exc.response)

-----------------------------------------------------------------------------
(* The payload of createJob, app.py:351-376 *)

Provider(a) ==
    ("type" :> Str(a.voice_provider)) @@
    ("voice_id" :> Str(a.voice_id)) @@
    (IF Truthy(a.voice_style)
        THEN "voice_config" :> Dict("style" :> Str(a.voice_style))
        ELSE EmptyDict)

Script(a) ==
    ("type" :> Str(a.script_type)) @@
    ("input" :> Str(IF a.script_type = "text" THEN a.text_input ELSE "")) @@
    ("subtitles" :> Str("false")) @@
    ("ssml" :> Str("false")) @@
    ("provider" :> IF a.script_type = "text" THEN Dict(Provider(a)) ELSE NoneV) @@
    ("audio_url" :> IF a.script_type = "audio" THEN Str(a.audio_url) ELSE NoneV)

Config(a) ==
    ("fluent" :> Str("false")) @@
    (IF a.stitch THEN "stitch" :> Bool(TRUE) ELSE EmptyDict) @@
    (IF a.persist THEN "persist" :> Bool(TRUE) ELSE EmptyDict) @@
    (IF Truthy(a.webhook) THEN "webhook" :> Str(a.webhook) ELSE EmptyDict)

RawPayload(a) ==
    ("source_url" :> Str(a.source_url)) @@
    ("script" :> Dict(Script(a))) @@
    ("config" :> Dict(Config(a))) @@
    (IF Truthy(a.driver_url) THEN "driver_url" :> Str(a.driver_url) ELSE EmptyDict)

\* "Remove None values": the top level, then the script
BuildPayload(a) ==
    LET top == DropNone(RawPayload(a))
    IN  [top EXCEPT !["script"] = Dict(DropNone(top["script"].v))]

-----------------------------------------------------------------------------
(* The log and the yielded tuples *)

LogEntry(head, st, body) == [head |-> head, st |-> st, body |-> body]

\* f"Creation Response:\n{json.dumps(talk, indent=2)}"
CreationLog(t) == <<LogEntry("Creation Response", "", JsonDumps(t))>>

\* f"\n\nPolling Response ({current_status}):\n{json.dumps(talk_status, indent=2)}"
PollingEntry(cs, ts) == LogEntry("Polling Response", cs, JsonDumps(ts))

\* error_msg, app.py:438-440
ErrorMsg(exc) ==
    <<LogEntry("Error", exc.msg, <<>>)>> \o
    (IF HasTruthyResponse(exc)
        THEN <<LogEntry("API Response", exc.response.text, <<>>)>>
        ELSE <<>>)

StatusText(kind, st) == [kind |-> kind, st |-> st]

HiddenVideo == [visible |-> FALSE, value |-> ""]

Update(id, status, url, video, log) ==
    [talk_id |-> id, status |-> status, result_url |-> url, video |-> video,
     download_status |-> "", log |-> log]

\* app.py:345
NoKeyUpdate ==
    Update("", StatusText("Error: No API key", ""), "", HiddenVideo,
           <<LogEntry("Configure API key first", "", <<>>)>>)

\* app.py:383
NoIdUpdate(log) == Update("", StatusText("Failed", ""), "", HiddenVideo, log)

\* A status update built before current_status is assigned
StatusUpdate_StaleStatus(id, cs, ts, log) ==
    Update(id, StatusText("Status", current_status), Get(ts, "result_url", ""),
           HiddenVideo, log)

\* app.py:399-406
StatusUpdate(id, cs, ts, log) ==
    Update(id, StatusText("Status", cs), Get(ts, "result_url", ""), HiddenVideo, log)

\* A success update that leaves the URL out.
SuccessUpdate_NoUrl(id, url, log) ==
    Update(id, StatusText("Completed successfully", ""), "", HiddenVideo, log)

\* app.py:412-419
SuccessUpdate(id, url, log) ==
    Update(id, StatusText("Completed successfully", ""), url,
           [visible |-> TRUE, value |-> url], log)

\* app.py:428-435
FinalUpdate(id, cs, log) ==
    Update(id, StatusText("Processing timed out or failed", cs), "", HiddenVideo, log)

\* app.py:441
ErrorUpdate(exc) == Update("", StatusText("Error", ""), "", HiddenVideo, ErrorMsg(exc))

\* The reading of an unassigned local at app.py:430
UnboundLocalError ==
    [msg |-> "local variable 'current_status' referenced before assignment",
     has_response |-> FALSE, response |-> NoResponse]

Stamp(clk, gets) == [at |-> clk, gets |-> gets, creates |-> createCalls]

-----------------------------------------------------------------------------
(* The configuration file, app.py:23-35 and 479-489 *)

DefaultUrl == "https://api.d-id.com"

\* The strings a key or a URL is drawn from: plain ones, and ones with a
\* character that JSON escapes (a quote, a backslash, a non-ASCII letter,
\* written <e-acute> here).
ConfigStrings == {"", "key", "k\"q", "a\\b", "cl<e-acute>", DefaultUrl, "https://other.example"}

\* The body of the JSON string literal json.dump writes for s
\* (ensure_ascii: quote, backslash and non-ASCII characters are escaped).
Escape(s) ==
    CASE s = "k\"q" -> "k\\\"q"
      [] s = "a\\b" -> "a\\\\b"
      [] s = "cl<e-acute>" -> "cl\\u00e9"
      [] OTHER -> s

\* The string json.load reads from the body of a string literal.
Unescape(t) ==
    CASE t = "k\\\"q" -> "k\"q"
      [] t = "a\\\\b" -> "a\\b"
      [] t = "cl\\u00e9" -> "cl<e-acute>"
      [] OTHER -> t

\* json.dump({"key": key, "url": url}, f): the text, token by token
DumpConfig(key, url) ==
    << "{", "\"key\"", ":", "\"", Escape(key), "\"", ",",
       "\"url\"", ":", "\"", Escape(url), "\"", "}" >>

\* A JSON object without members
EmptyObject == << "{", "}" >>

\* No file, or a file without text
NoText == << >>

IsConfigText(text) ==
    /\ Len(text) = Len(DumpConfig("", ""))
    /\ \A i \in (1..Len(text)) \ {5, 11} : text[i] = DumpConfig("", "")[i]

\* json.load(f) raises on anything that is not a JSON document
JsonLoads(text) == IsConfigText(text) \/ text = EmptyObject

\* load_config(), app.py:23-31
load_config(text) ==
    IF JsonLoads(text)
        THEN IF text = EmptyObject
                THEN EmptyDict
                ELSE [key |-> Unescape(text[5]), url |-> Unescape(text[11])]
        ELSE [key |-> "", url |-> DefaultUrl]

\* The files the application may start with.
InitialFiles == {EmptyObject} \cup {DumpConfig(k, DefaultUrl) : k \in ApiKeys}

NoSave ==
    [n |-> 0, outcome |-> "none", key |-> "", url |-> "", connected |-> FALSE]

\* Module start, app.py:33-35
InitConfig(initial) ==
    /\ config_file \in initial
    /\ loaded = load_config(config_file)
    /\ API_KEY = Get(loaded, "key", None)
    /\ BASE_URL = Get(loaded, "url", DefaultUrl)
    /\ last_save = NoSave

\* How a save ends: written; open() raises; the write raises after open()
\* has truncated the file and `written` tokens have reached it.
SaveOutcomes == {"saved", "open_failed", "write_failed"}

PartialWrites == {0, 6}

\* `API_KEY = key; BASE_URL = url` come after json.dump (app.py:482-486)
SaveGlobals(outcome, new, old) == IF outcome = "saved" THEN new ELSE old

\* save_config_handler(key, url), app.py:479-489
save_config_handler(key, url, outcome, written) ==
    /\ last_save.n < MaxSaves
    /\ config_file' =
          CASE outcome = "saved" -> DumpConfig(key, url)
            [] outcome = "open_failed" -> config_file
            [] outcome = "write_failed" -> SubSeq(DumpConfig(key, url), 1, written)
    /\ API_KEY' = SaveGlobals(outcome, key, API_KEY)
    /\ BASE_URL' = SaveGlobals(outcome, url, BASE_URL)
    /\ last_save' =
          [n |-> last_save.n + 1, outcome |-> outcome, key |-> key, url |-> url,
           connected |-> IF outcome = "saved" THEN Truthy(key) ELSE Truthy(API_KEY)]
    /\ UNCHANGED <<loaded, runVars, dlVars, twoVars>>

\* The application is started again: app.py:33-35
Restart ==
    /\ last_save.n > 0
    /\ loaded' = load_config(config_file)
    /\ API_KEY' = Get(loaded', "key", None)
    /\ BASE_URL' = Get(loaded', "url", DefaultUrl)
    /\ UNCHANGED <<config_file, last_save, runVars, dlVars, twoVars>>

-----------------------------------------------------------------------------
(* The transport client, app.py:71-94 *)

\* f"Basic {base64.b64encode(f'{api_key}:'.encode()).decode()}"
BasicAuth(api_key) == << "Basic", << "base64", api_key, ":" >> >>

NoHeaders == [Authorization |-> << >>, accept |-> ""]

\* DIDClient.__init__
ClientHeaders(api_key) ==
    [Authorization |-> BasicAuth(api_key), accept |-> "application/json"]

\* requests.post(f"{BASE_URL}/talks", headers=self.headers, json=payload)
PostTalks(hdrs) ==
    [method |-> "POST", base |-> BASE_URL, path |-> << "/talks" >>,
     auth |-> hdrs.Authorization, at |-> clock]

\* requests.get(f"{BASE_URL}/talks/{talk_id}", headers=self.headers)
GetTalk(hdrs, id) ==
    [method |-> "GET", base |-> BASE_URL, path |-> << "/talks/", id >>,
     auth |-> hdrs.Authorization, at |-> clock]

-----------------------------------------------------------------------------
(* The files of download_video *)

NoPath == << >>

NoFiles == [p \in {} |-> [complete |-> FALSE, by |-> 0, chunks |-> 0]]

NoUrl == << >>

\* The locals of a create_talk generator that was not started
NotStarted == [pc |-> "none"]

\* URLs as a scheme followed by the rest
DownloadUrls ==
    {NoUrl, << "ftp://", "cdn.example/v.mp4" >>, << "http://", "cdn.example/v.mp4" >>,
     << "https://", "cdn.example/v.mp4" >>}

\* url.startswith(('http://', 'https://'))
StartsWithHttp(url) == Len(url) > 0 /\ url[1] \in {"http://", "https://"}

\* time.time() is clock + clock_frac / TicksPerSecond
TicksPerSecond == 10

\* Time between two calls of download_video, in ticks
FetchGaps == {4, 10}

\* os.path.join('d-id_videos', f"video_{int(time.time())}.mp4")
VideoPath(seconds) == << "d-id_videos", "video_", seconds, ".mp4" >>

\* open(filename, 'wb'): the file is created, or truncated if it exists
OpenForWrite(fs, path, by) ==
    [p \in DOMAIN fs \cup {path} |->
        IF p = path THEN [complete |-> FALSE, by |-> by, chunks |-> 0] ELSE fs[p]]

\* An except handler that leaves the file in place
RemoveIfExists_Keeps(fs, path) == fs

\* if os.path.exists(filename): os.remove(filename)
RemoveIfExists(fs, path) == [p \in DOMAIN fs \ {path} |-> fs[p]]

Downloaded(path) == [path |-> path, msg |-> "Downloaded successfully"]

InvalidUrl == [path |-> NoPath, msg |-> "Invalid URL"]

DownloadFailed == [path |-> NoPath, msg |-> "Download failed"]

InitDownload ==
    /\ clock_frac = 0
    /\ files = NoFiles
    /\ dl_pc = "idle"
    /\ dl_url = NoUrl
    /\ dl_filename = NoPath
    /\ dl_result = [path |-> NoPath, msg |-> ""]
    /\ dl_history = << >>
    /\ dh_pc = "idle"
    /\ dh_url = NoUrl
    /\ dh_updates = << >>
    /\ dh_calls = 0
    /\ active = 1
    /\ otherRun = NotStarted

-----------------------------------------------------------------------------
(* The generator *)

Init ==
    /\ InitConfig(InitialFiles)
    /\ InitDownload
    /\ headers = NoHeaders
    /\ requests = << >>
    /\ closedAfter = 0
    /\ args \in SomeArgs
    /\ pc = "start"
    /\ payload = EmptyDict
    /\ talk = EmptyDict
    /\ talk_id = Unbound
    /\ start_time = 0
    /\ clock = 0
    /\ talk_status = EmptyDict
    /\ current_status = Unbound
    /\ response_log = <<>>
    /\ e = NoException
    /\ updates = <<>>
    /\ emitted = <<>>
    /\ createCalls = 0
    /\ getCalls = 0
    /\ pollResponses = <<>>

\* The same, for every combination of set and unset inputs.
InitPayload ==
    /\ InitConfig(InitialFiles)
    /\ InitDownload
    /\ headers = NoHeaders
    /\ requests = << >>
    /\ closedAfter = 0
    /\ args \in AllArgs
    /\ pc = "start"
    /\ payload = EmptyDict
    /\ talk = EmptyDict
    /\ talk_id = Unbound
    /\ start_time = 0
    /\ clock = 0
    /\ talk_status = EmptyDict
    /\ current_status = Unbound
    /\ response_log = <<>>
    /\ e = NoException
    /\ updates = <<>>
    /\ emitted = <<>>
    /\ createCalls = 0
    /\ getCalls = 0
    /\ pollResponses = <<>>

\* A handler that catches HTTP errors only: anything else leaves the generator.
Raise_OnlyHttpErrors(exc, clk, gets) ==
    /\ e' = exc
    /\ IF exc.has_response
          THEN /\ updates' = Append(updates, ErrorUpdate(exc))
               /\ emitted' = Append(emitted, Stamp(clk, gets))
               /\ pc' = "error_yield"
          ELSE /\ pc' = "raised"
               /\ UNCHANGED <<updates, emitted>>

\* except Exception as e: ... yield ..., "Error", ... (app.py:437-441)
Raise(exc, clk, gets) ==
    /\ e' = exc
    /\ updates' = Append(updates, ErrorUpdate(exc))
    /\ emitted' = Append(emitted, Stamp(clk, gets))
    /\ pc' = "error_yield"

\* The yield after the loop (app.py:428-435); reading current_status raises
\* when no poll has assigned it.
Final(cs, clk) ==
    IF cs = Unbound
        THEN Raise(UnboundLocalError, clk, getCalls)
        ELSE /\ updates' = Append(updates, FinalUpdate(talk_id, cs, response_log))
             /\ emitted' = Append(emitted, Stamp(clk, getCalls))
             /\ pc' = "final_yield"
             /\ e' = e

\* `current_status == "done"`, app.py:409
IsDone_OtherWord(cs) == cs = "completed"

IsDone(cs) == cs = "done"

\* A loop that also gives up on a response without a status
BreakStatuses_WithUnknown == {"failed", "error", "unknown"}

\* The statuses that leave the loop by `break` at app.py:422
BreakStatuses == {"failed", "error"}

\* A test for None only
HasApiKey_NotNone(k) == k # None

\* `not API_KEY`, app.py:344
HasApiKey(k) == Truthy(k)

\* `time.time() - start_time < timeout`, app.py:392
WithinDeadline(now, start) == now - start < timeout

\* A loop that polls again without sleeping
Sleep_Skipped(now) == now

\* time.sleep(poll_interval), app.py:425
Sleep(now) == now + poll_interval

\* app.py:343-379: the credential test, the payload, the createJob request
Start ==
    /\ pc = "start"
    /\ IF ~HasApiKey(API_KEY)
          THEN /\ updates' = Append(updates, NoKeyUpdate)
               /\ emitted' = Append(emitted, Stamp(clock, getCalls))
               /\ pc' = "nokey_yield"
               /\ UNCHANGED <<payload, createCalls, headers, requests>>
          ELSE /\ headers' = ClientHeaders(API_KEY)
               /\ payload' = BuildPayload(args)
               /\ createCalls' = createCalls + 1
               /\ requests' = Append(requests, PostTalks(headers'))
               /\ pc' = "create_wait"
               /\ UNCHANGED <<updates, emitted>>
    /\ UNCHANGED <<API_KEY, args, talk, talk_id, start_time, clock, talk_status,
                   current_status, response_log, e, getCalls, pollResponses>>
    /\ UNCHANGED <<BASE_URL, closedAfter, cfgVars, dlVars, twoVars>>

\* app.py:379-390: createJob answers
CreateReturns(resp, stall) ==
    /\ pc = "create_wait"
    /\ talk' = resp
    /\ response_log' = CreationLog(resp)
    /\ IF ~Truthy(Get(resp, "id", None))
          THEN /\ updates' = Append(updates, NoIdUpdate(response_log'))
               /\ emitted' = Append(emitted, Stamp(clock, getCalls))
               /\ pc' = "noid_yield"
               /\ UNCHANGED <<talk_id, start_time, clock>>
          ELSE /\ talk_id' = resp["id"]
               /\ start_time' = clock
               /\ clock' = clock + stall
               /\ pc' = "loop"
               /\ UNCHANGED <<updates, emitted>>
    /\ UNCHANGED <<API_KEY, args, payload, talk_status, current_status, e,
                   createCalls, getCalls, pollResponses>>
    /\ UNCHANGED <<BASE_URL, closedAfter, cfgVars, dlVars, twoVars>>
    /\ UNCHANGED <<headers, requests>>

\* app.py:379, 437-441: createJob raises
CreateRaises(exc) ==
    /\ pc = "create_wait"
    /\ Raise(exc, clock, getCalls)
    /\ UNCHANGED <<API_KEY, args, payload, talk, talk_id, start_time, clock,
                   talk_status, current_status, response_log, createCalls,
                   getCalls, pollResponses>>
    /\ UNCHANGED <<BASE_URL, closedAfter, cfgVars, dlVars, twoVars>>
    /\ UNCHANGED <<headers, requests>>

\* app.py:392-394: the loop condition, then the getJob request or the
\* fall-through to app.py:428
LoopTest ==
    /\ pc = "loop"
    /\ IF WithinDeadline(clock, start_time)
          THEN /\ getCalls < MaxPolls
               /\ getCalls' = getCalls + 1
               /\ requests' = Append(requests, GetTalk(headers, talk_id))
               /\ pc' = "get_wait"
               /\ UNCHANGED <<updates, emitted, e>>
          ELSE /\ Final(current_status, clock)
               /\ UNCHANGED <<getCalls, requests>>
    /\ UNCHANGED <<API_KEY, args, payload, talk, talk_id, start_time, clock,
                   talk_status, current_status, response_log, createCalls,
                   pollResponses>>
    /\ UNCHANGED <<BASE_URL, closedAfter, cfgVars, dlVars, twoVars, headers>>

\* app.py:394-406: getJob answers after d seconds
GetReturns(resp, d) ==
    /\ pc = "get_wait"
    /\ clock' = clock + d
    /\ talk_status' = resp
    /\ current_status' = Get(resp, "status", "unknown")
    /\ response_log' = Append(response_log, PollingEntry(current_status', resp))
    /\ pollResponses' = Append(pollResponses, resp)
    /\ updates' = Append(updates,
                         StatusUpdate(talk_id, current_status', resp, response_log'))
    /\ emitted' = Append(emitted, Stamp(clock', getCalls))
    /\ pc' = "status_yield"
    /\ UNCHANGED <<API_KEY, args, payload, talk, talk_id, start_time, e,
                   createCalls, getCalls>>
    /\ UNCHANGED <<BASE_URL, closedAfter, cfgVars, dlVars, twoVars>>
    /\ UNCHANGED <<headers, requests>>

\* app.py:394, 437-441: getJob raises after d seconds
GetRaises(exc, d) ==
    /\ pc = "get_wait"
    /\ clock' = clock + d
    /\ Raise(exc, clock', getCalls)
    /\ UNCHANGED <<API_KEY, args, payload, talk, talk_id, start_time,
                   talk_status, current_status, response_log, createCalls,
                   getCalls, pollResponses>>
    /\ UNCHANGED <<BASE_URL, closedAfter, cfgVars, dlVars, twoVars>>
    /\ UNCHANGED <<headers, requests>>

\* app.py:409-425: resumed after the status yield
AfterStatus ==
    /\ pc = "status_yield"
    /\ IF IsDone(current_status)
          THEN LET result_url == Get(talk_status, "result_url", None)
               IN  IF Truthy(result_url)
                      THEN /\ updates' = Append(updates,
                                  SuccessUpdate(talk_id, result_url, response_log))
                           /\ emitted' = Append(emitted, Stamp(clock, getCalls))
                           /\ pc' = "success_yield"
                           /\ UNCHANGED <<e, clock>>
                      ELSE /\ Final(current_status, clock)
                           /\ UNCHANGED clock
          ELSE IF current_status \in BreakStatuses
                  THEN /\ Final(current_status, clock)
                       /\ UNCHANGED clock
                  ELSE /\ clock' = Sleep(clock)
                       /\ pc' = "loop"
                       /\ UNCHANGED <<updates, emitted, e>>
    /\ UNCHANGED <<API_KEY, args, payload, talk, talk_id, start_time,
                   talk_status, current_status, response_log, createCalls,
                   getCalls, pollResponses>>
    /\ UNCHANGED <<BASE_URL, closedAfter, cfgVars, dlVars, twoVars>>
    /\ UNCHANGED <<headers, requests>>

\* Without the `return` of app.py:420 the success branch reaches `break`
\* and the yield after the loop.
Return_MissingReturn ==
    /\ pc \in {"nokey_yield", "noid_yield", "success_yield", "final_yield",
               "error_yield"}
    /\ IF pc = "success_yield"
          THEN Final(current_status, clock)
          ELSE /\ pc' = "done"
               /\ UNCHANGED <<e, updates, emitted>>
    /\ UNCHANGED <<API_KEY, args, payload, talk, talk_id, start_time, clock,
                   talk_status, current_status, response_log, createCalls,
                   getCalls, pollResponses>>
    /\ UNCHANGED <<BASE_URL, closedAfter, cfgVars, dlVars, twoVars>>
    /\ UNCHANGED <<headers, requests>>

\* app.py:346, 384, 420 and the ends of the function after 435 and 441:
\* resumed after a last yield, the generator finishes
Return ==
    /\ pc \in {"nokey_yield", "noid_yield", "success_yield", "final_yield",
               "error_yield"}
    /\ pc' = "done"
    /\ UNCHANGED <<API_KEY, args, payload, talk, talk_id, start_time, clock,
                   talk_status, current_status, response_log, e, updates,
                   emitted, createCalls, getCalls, pollResponses>>
    /\ UNCHANGED <<BASE_URL, closedAfter, cfgVars, dlVars, twoVars>>
    /\ UNCHANGED <<headers, requests>>

Submit ==
    \/ Start
    \/ \E resp \in CreateResponses, stall \in StartupStalls : CreateReturns(resp, stall)
    \/ \E exc \in Exceptions : CreateRaises(exc)

Poll ==
    \/ LoopTest
    \/ \E resp \in PollResponses, d \in Durations : GetReturns(resp, d)
    \/ \E exc \in Exceptions, d \in Durations : GetRaises(exc, d)
    \/ AfterStatus

Next == Submit \/ Poll \/ Return

Spec == Init /\ [][Next]_vars

\* What generator.close() raises at the yield where the generator is parked
GeneratorExit ==
    [msg |-> "GeneratorExit", has_response |-> FALSE, response |-> NoResponse]

\* A bare `except:` catches everything
CaughtByHandler_Bare(exc) == TRUE

\* `except Exception` (app.py:437): GeneratorExit is a BaseException only
CaughtByHandler(exc) == exc # GeneratorExit

\* The consumer abandons the stream: close() on the generator parked at a
\* yield of app.py:345, 383, 399, 412, 428 or 441
Close ==
    /\ pc \in {"nokey_yield", "noid_yield", "status_yield", "success_yield",
               "final_yield", "error_yield"}
    /\ closedAfter' = Len(updates)
    /\ IF pc # "error_yield" /\ CaughtByHandler(GeneratorExit)
          THEN Raise(GeneratorExit, clock, getCalls)
          ELSE /\ pc' = "closed"
               /\ UNCHANGED <<e, updates, emitted>>
    /\ UNCHANGED <<API_KEY, args, payload, talk, talk_id, start_time, clock,
                   talk_status, current_status, response_log, createCalls,
                   getCalls, pollResponses>>
    /\ UNCHANGED <<BASE_URL, headers, requests, cfgVars, dlVars, twoVars>>

\* The run with a consumer that may abandon it.
NextCancel == Submit \/ Poll \/ Return \/ Close

SpecCancel == Init /\ [][NextCancel]_vars

\* The run while the configuration tab saves a new key and URL.
SharedSave ==
    /\ last_save.n < MaxSharedSaves
    /\ \E outcome \in SaveOutcomes :
          save_config_handler("k\"q", "https://other.example", outcome, 0)

NextShared == Submit \/ Poll \/ Return \/ SharedSave

SpecShared == Init /\ [][NextShared]_vars

\* No talk has been requested.
NoRun ==
    /\ args \in {a \in SomeArgs : a.script_type = "text"}
    /\ pc = "start"
    /\ payload = EmptyDict
    /\ talk = EmptyDict
    /\ talk_id = Unbound
    /\ start_time = 0
    /\ clock = 0
    /\ talk_status = EmptyDict
    /\ current_status = Unbound
    /\ response_log = <<>>
    /\ e = NoException
    /\ updates = <<>>
    /\ emitted = <<>>
    /\ createCalls = 0
    /\ getCalls = 0
    /\ pollResponses = <<>>
    /\ headers = NoHeaders
    /\ requests = << >>
    /\ closedAfter = 0

\* The configuration handlers alone, for every key and URL.
InitSave ==
    /\ InitConfig(InitialFiles \cup {NoText})
    /\ InitDownload
    /\ NoRun

Save ==
    \E key \in ConfigStrings, url \in ConfigStrings, outcome \in SaveOutcomes,
       written \in PartialWrites :
        save_config_handler(key, url, outcome, written)

NextSave == Save \/ Restart

SpecSave == InitSave /\ [][NextSave]_vars

\* download_video, app.py:96-120, one call after another.
talkVars ==
    <<API_KEY, BASE_URL, cfgVars, args, pc, payload, talk, talk_id, start_time,
      talk_status, current_status, response_log, e, updates, emitted,
      createCalls, getCalls, pollResponses, headers, requests, closedAfter,
      twoVars>>

fetchVars == <<talkVars, dhVars>>

Fetch(url, path) == [url |-> url, path |-> path, opened |-> FALSE, outcome |-> "running"]

EndFetch(outcome) ==
    dl_history' = [dl_history EXCEPT ![Len(dl_history)].outcome = outcome]

\* Lines 98-102: the URL test, makedirs and the filename
DlEnter(url, gap) ==
    /\ dl_pc = "idle"
    /\ Len(dl_history) < MaxFetches
    /\ clock' = (clock * TicksPerSecond + clock_frac + gap) \div TicksPerSecond
    /\ clock_frac' = (clock * TicksPerSecond + clock_frac + gap) % TicksPerSecond
    /\ dl_url' = url
    /\ IF ~StartsWithHttp(url)
          THEN /\ dl_result' = InvalidUrl
               /\ dl_history' = Append(dl_history,
                                       [Fetch(url, NoPath) EXCEPT !.outcome = "invalid"])
               /\ UNCHANGED <<dl_pc, dl_filename>>
          ELSE /\ dl_filename' = VideoPath(clock')
               /\ dl_history' = Append(dl_history, Fetch(url, VideoPath(clock')))
               /\ dl_pc' = "connect"
               /\ UNCHANGED dl_result
    /\ UNCHANGED files

\* download_video called on its own
DlStart(url, gap) == DlEnter(url, gap) /\ UNCHANGED fetchVars

\* Lines 118-120: the except handler
DlExcept ==
    /\ files' = RemoveIfExists(files, dl_filename)
    /\ dl_result' = DownloadFailed
    /\ EndFetch("failed")
    /\ dl_pc' = "idle"

\* Lines 105-107 raise: no connection, an HTTP error status, a content-length
\* that is no integer
DlConnectRaises ==
    /\ dl_pc = "connect"
    /\ DlExcept
    /\ UNCHANGED <<clock, clock_frac, dl_url, dl_filename, fetchVars>>

\* Lines 105-110: the response arrives and the target file is opened
DlOpen ==
    /\ dl_pc = "connect"
    /\ files' = OpenForWrite(files, dl_filename, Len(dl_history))
    /\ dl_history' = [dl_history EXCEPT ![Len(dl_history)].opened = TRUE]
    /\ dl_pc' = "stream"
    /\ UNCHANGED <<clock, clock_frac, dl_url, dl_filename, dl_result, fetchVars>>

\* Lines 111-114: one chunk is written
DlChunk ==
    /\ dl_pc = "stream"
    /\ files[dl_filename].chunks < MaxChunks
    /\ files' = [files EXCEPT ![dl_filename].chunks = @ + 1]
    /\ UNCHANGED <<clock, clock_frac, dl_pc, dl_url, dl_filename, dl_result,
                   dl_history, fetchVars>>

\* iter_content or f.write raises mid-stream
DlStreamRaises ==
    /\ dl_pc = "stream"
    /\ DlExcept
    /\ UNCHANGED <<clock, clock_frac, dl_url, dl_filename, fetchVars>>

\* Line 116: the stream ended, both with-blocks are left
DlReturn ==
    /\ dl_pc = "stream"
    /\ files' = [files EXCEPT ![dl_filename].complete = TRUE]
    /\ dl_result' = Downloaded(dl_filename)
    /\ EndFetch("ok")
    /\ dl_pc' = "idle"
    /\ UNCHANGED <<clock, clock_frac, dl_url, dl_filename, fetchVars>>

download_video ==
    \/ \E url \in DownloadUrls, gap \in FetchGaps : DlStart(url, gap)
    \/ DlConnectRaises
    \/ DlOpen
    \/ DlChunk
    \/ DlStreamRaises
    \/ DlReturn

InitFetch == InitConfig(InitialFiles) /\ InitDownload /\ NoRun

SpecFetch == InitFetch /\ [][download_video]_vars

\* download_handler, app.py:455-470
HandlerUpdate(button, message, video) ==
    [download_btn |-> button, download_status |-> message, video |-> video]

NoUrlUpdate == HandlerUpdate("Download Video", "No URL provided", HiddenVideo)

DownloadingUpdate == HandlerUpdate("Downloading...", "Download started...", HiddenVideo)

CompleteUpdate(filepath, message) ==
    HandlerUpdate("Download Complete", message, [visible |-> TRUE, value |-> filepath])

FailedUpdate(message) == HandlerUpdate("Download Failed", message, HiddenVideo)

\* `return value` in a generator function ends it; the value travels in
\* StopIteration and is no item of the stream (app.py:458)
ReturnValue(value) == << >>

\* Lines 456-461: the URL test, then the first yield
DhStart(url) ==
    /\ dh_pc \in {"idle", "done"}
    /\ dl_pc = "idle"
    /\ dh_url' = url
    /\ dh_calls' = 0
    /\ IF url = NoUrl
          THEN /\ dh_updates' = ReturnValue(NoUrlUpdate)
               /\ dh_pc' = "done"
          ELSE /\ dh_updates' = << DownloadingUpdate >>
               /\ dh_pc' = "started_yield"
    /\ UNCHANGED <<clock, clock_frac, files, dl_pc, dl_url, dl_filename, dl_result,
                   dl_history, talkVars>>

\* Line 463: download_video(url) is entered
DhCall(gap) ==
    /\ dh_pc = "started_yield"
    /\ DlEnter(dh_url, gap)
    /\ dh_calls' = dh_calls + 1
    /\ dh_pc' = "fetching"
    /\ UNCHANGED <<dh_url, dh_updates, talkVars>>

\* Lines 463, 469-470: download_video raises outside its own try (makedirs)
DhCallRaises ==
    /\ dh_pc = "started_yield"
    /\ dh_updates' = Append(dh_updates, FailedUpdate("Error"))
    /\ dh_calls' = dh_calls + 1
    /\ dh_pc' = "result_yield"
    /\ UNCHANGED <<dh_url, clock, clock_frac, files, dl_pc, dl_url, dl_filename,
                   dl_result, dl_history, talkVars>>

\* Lines 464-467: download_video has returned
DhResult ==
    /\ dh_pc = "fetching"
    /\ dl_pc = "idle"
    /\ dh_updates' =
          Append(dh_updates,
                 IF dl_result.path # NoPath
                    THEN CompleteUpdate(dl_result.path, dl_result.msg)
                    ELSE FailedUpdate(dl_result.msg))
    /\ dh_pc' = "result_yield"
    /\ UNCHANGED <<dh_url, dh_calls, clock, clock_frac, files, dl_pc, dl_url,
                   dl_filename, dl_result, dl_history, talkVars>>

\* Resumed after the last yield, the generator finishes
DhReturn ==
    /\ dh_pc = "result_yield"
    /\ dh_pc' = "done"
    /\ UNCHANGED <<dh_url, dh_updates, dh_calls, clock, clock_frac, files, dl_pc,
                   dl_url, dl_filename, dl_result, dl_history, talkVars>>

download_handler ==
    \/ \E url \in DownloadUrls : DhStart(url)
    \/ \E gap \in FetchGaps : DhCall(gap)
    \/ DhCallRaises
    \/ DlConnectRaises
    \/ DlOpen
    \/ DlChunk
    \/ DlStreamRaises
    \/ DlReturn
    \/ DhResult
    \/ DhReturn

SpecHandler == InitFetch /\ [][download_handler]_vars

\* Two submissions: two create_talk generators, each with its own locals.
\* The run variables show the generator that is executing; the locals of
\* the other one are kept in otherRun.
Locals ==
    [args |-> args, pc |-> pc, payload |-> payload, talk |-> talk,
     talk_id |-> talk_id, start_time |-> start_time, talk_status |-> talk_status,
     current_status |-> current_status, response_log |-> response_log, e |-> e,
     updates |-> updates, emitted |-> emitted, createCalls |-> createCalls,
     getCalls |-> getCalls, pollResponses |-> pollResponses, headers |-> headers,
     requests |-> requests, closedAfter |-> closedAfter]

Fresh == [Locals EXCEPT
             !.pc = "start", !.payload = EmptyDict, !.talk = EmptyDict,
             !.talk_id = Unbound, !.start_time = 0, !.talk_status = EmptyDict,
             !.current_status = Unbound, !.response_log = << >>,
             !.e = NoException, !.updates = << >>, !.emitted = << >>,
             !.createCalls = 0, !.getCalls = 0, !.pollResponses = << >>,
             !.headers = NoHeaders, !.requests = << >>, !.closedAfter = 0]

\* A talk_id kept in one place for all generators
ResumedTalkId_Shared(saved) == talk_id

\* talk_id is a local of create_talk (app.py:387)
ResumedTalkId(saved) == saved.talk_id

\* The other generator executes next
Resume(saved) ==
    /\ otherRun' = Locals
    /\ active' = 3 - active
    /\ args' = saved.args
    /\ pc' = saved.pc
    /\ payload' = saved.payload
    /\ talk' = saved.talk
    /\ talk_id' = ResumedTalkId(saved)
    /\ start_time' = saved.start_time
    /\ talk_status' = saved.talk_status
    /\ current_status' = saved.current_status
    /\ response_log' = saved.response_log
    /\ e' = saved.e
    /\ updates' = saved.updates
    /\ emitted' = saved.emitted
    /\ createCalls' = saved.createCalls
    /\ getCalls' = saved.getCalls
    /\ pollResponses' = saved.pollResponses
    /\ headers' = saved.headers
    /\ requests' = saved.requests
    /\ closedAfter' = saved.closedAfter
    /\ UNCHANGED <<API_KEY, BASE_URL, clock, cfgVars, dlVars>>

\* The second submission: submit_btn.click starts another generator
SecondSubmission ==
    /\ otherRun = NotStarted
    /\ Resume(Fresh)

Switch ==
    /\ otherRun # NotStarted
    /\ Resume(otherRun)

TalkIds == << "tlk_1", "tlk_2" >>

\* The server gives each created talk an id of its own
Served(resp, run) ==
    IF Truthy(Get(resp, "id", None)) THEN [resp EXCEPT !.id = TalkIds[run]] ELSE resp

\* One response that keeps the loop going and one that ends it
TwoRunPolls ==
    {resp \in PollResponses :
        Get(resp, "status", "unknown") \in {"created", "done"}
        /\ Get(resp, "result_url", "") = (IF resp.status = "done" THEN ResultUrl ELSE "")}

TwoRunExceptions == {exc \in Exceptions : ~exc.has_response}

TwoRunLoopTest == getCalls < MaxTwoRunPolls /\ LoopTest

NextTwoRuns ==
    \/ Start
    \/ \E resp \in CreateResponses : CreateReturns(Served(resp, active), 0)
    \/ \E exc \in TwoRunExceptions : CreateRaises(exc)
    \/ TwoRunLoopTest
    \/ \E resp \in TwoRunPolls : GetReturns(resp, 0)
    \/ \E exc \in TwoRunExceptions : GetRaises(exc, 0)
    \/ AfterStatus
    \/ Return
    \/ SecondSubmission
    \/ Switch

InitTwoRuns == InitFetch

SpecTwoRuns == InitTwoRuns /\ [][NextTwoRuns]_vars

\* The submission alone, for every combination of inputs.
NextPayload == Submit \/ Return

SpecPayload == InitPayload /\ [][NextPayload]_vars

-----------------------------------------------------------------------------
(* Vocabulary of the properties *)

Last(seq) == seq[Len(seq)]

IsPrefix(a, b) == Len(a) <= Len(b) /\ SubSeq(b, 1, Len(a)) = a

StatusOf(resp) == Get(resp, "status", "unknown")

\* A terminal update is any update other than the per-poll "Status: ..." one.
IsTerminal(u) == u.status.kind # "Status"

IsSucceeded(u) == u.status.kind = "Completed successfully"

IsTimedOutOrFailed(u) == u.status.kind = "Processing timed out or failed"

Terminals == {i \in 1..Len(updates) : IsTerminal(updates[i])}

TerminalPcs == {"nokey_yield", "noid_yield", "success_yield", "final_yield",
                "error_yield", "done"}

CreateSucceeded == talk_id # Unbound

DoneWithUrl(resp) == StatusOf(resp) = "done" /\ Truthy(Get(resp, "result_url", None))

\* The statuses the specification calls terminal.
SpecTerminalStatuses == {"done", "error", "failed", "rejected"}

InProgress(resp) == StatusOf(resp) \notin SpecTerminalStatuses

-----------------------------------------------------------------------------
(* C1 *)

\* C1: every run ends in exactly one terminal outcome.  At most one terminal
\* update is ever emitted and it is the last update; once it is emitted the
\* generator only finishes: no update and no network call follows it; a
\* finished run has emitted its terminal update; and the stream is finite,
\* as every getJob call starts before the deadline and after one sleep per
\* earlier call.
C1_OneTerminalOutcome ==
    /\ Cardinality(Terminals) <= 1
    /\ Terminals # {} =>
          /\ Terminals = {Len(updates)}
          /\ pc \in TerminalPcs
          /\ Last(emitted).gets = getCalls
          /\ Last(emitted).creates = createCalls
    /\ pc = "done" => Terminals # {}
    /\ pc \notin {"start", "create_wait"} => createCalls <= 1
    /\ Len(updates) <= getCalls + 1
    /\ pc = "get_wait" => clock - start_time < timeout
    /\ getCalls >= 1 => (getCalls - 1) * poll_interval <= clock - start_time

C1_Witness ==
    /\ pc = "done"
    /\ getCalls >= 2
    /\ IsSucceeded(Last(updates))

-----------------------------------------------------------------------------
(* C2 *)

\* C2: measured from start_time, the terminal update of a run whose
\* createJob succeeded is emitted no later than timeout + poll_interval
\* seconds, however long the getJob calls take.
C2_TerminalWithinDeadline ==
    \A i \in Terminals :
        CreateSucceeded => emitted[i].at - start_time <= timeout + poll_interval

-----------------------------------------------------------------------------
(* C3 *)

\* C3: if the N-th poll response is done with a non-empty result_url, no
\* getJob call follows the N-th, and the stream ends with the "Completed
\* successfully" update carrying exactly that result_url.
C3_DoneEndsInSuccess ==
    \A n \in 1..Len(pollResponses) :
        DoneWithUrl(pollResponses[n]) =>
            /\ n = Len(pollResponses)
            /\ getCalls = n
            /\ pc \in {"status_yield", "success_yield", "done"}
            /\ pc \in {"success_yield", "done"} =>
                  /\ IsSucceeded(Last(updates))
                  /\ Last(updates).result_url = pollResponses[n]["result_url"]
                  /\ Last(updates).video =
                        [visible |-> TRUE, value |-> pollResponses[n]["result_url"]]

C3_Witness ==
    /\ pc = "done"
    /\ Len(pollResponses) >= 2
    /\ DoneWithUrl(Last(pollResponses))
    /\ IsSucceeded(Last(updates))
    /\ Last(updates).result_url = ResultUrl

-----------------------------------------------------------------------------
(* C4 *)

\* C4: a run whose createJob succeeded, whose getJob calls all answered and
\* whose poll responses were all in progress ends with the timed-out update,
\* which names the status of the last poll response; also when the deadline
\* passed before any poll completed.
C4_TimedOutNamesLastStatus ==
    ( /\ pc = "done"
      /\ CreateSucceeded
      /\ e \notin Exceptions
      /\ \A n \in 1..Len(pollResponses) : InProgress(pollResponses[n]) )
    => /\ IsTimedOutOrFailed(Last(updates))
       /\ Len(pollResponses) > 0 =>
             Last(updates).status.st = StatusOf(Last(pollResponses))

-----------------------------------------------------------------------------
(* C5 *)

\* The raw response body of the failed submission, as the log carries it.
CarriesRawBody(log) ==
    IF e = NoException
        THEN \E j \in 1..Len(log) : log[j].body = JsonDumps(talk)
        ELSE e.has_response => \E j \in 1..Len(log) : log[j].st = e.response.text

\* C5: when createJob raises or answers without an id, the run emits exactly
\* one update, a failure carrying the raw response body in its log, and makes
\* no getJob call.
C5_CreateFailureOneUpdate ==
    (pc = "done" /\ createCalls = 1 /\ ~CreateSucceeded) =>
        /\ Len(updates) = 1
        /\ updates[1].status.kind \in {"Failed", "Error"}
        /\ getCalls = 0
        /\ CarriesRawBody(updates[1].log)

-----------------------------------------------------------------------------
(* C6 *)

\* A finished run whose createJob succeeded, whose N getJob calls all
\* answered, the first N-1 in progress and the N-th done with a result_url.
DoneAtLastPoll ==
    /\ pc = "done"
    /\ CreateSucceeded
    /\ e = NoException
    /\ Len(pollResponses) >= 1
    /\ \A n \in 1..(Len(pollResponses) - 1) : InProgress(pollResponses[n])
    /\ DoneWithUrl(Last(pollResponses))

\* C6 as stated: such a run emits N+1 updates, one for the create step,
\* emitted before any getJob call, then one per poll, the last one being
\* the success update with the result_url.
C6_CreateUpdateThenOnePerPoll ==
    DoneAtLastPoll =>
        LET N == Len(pollResponses)
        IN  /\ Len(updates) = N + 1
            /\ emitted[1].gets = 0
            /\ \A n \in 1..N : emitted[n + 1].gets = n
            /\ IsSucceeded(Last(updates))
            /\ Last(updates).result_url = Last(pollResponses)["result_url"]

\* C6 amended: such a run emits N+1 updates, none for the create step: the
\* n-th is the status update of the n-th poll and the last, emitted after the
\* N-th poll, is the success update with the result_url.
C6_OnePerPollThenSuccess ==
    DoneAtLastPoll =>
        LET N == Len(pollResponses)
        IN  /\ Len(updates) = N + 1
            /\ \A n \in 1..N :
                  /\ emitted[n].gets = n
                  /\ updates[n].status =
                        StatusText("Status", StatusOf(pollResponses[n]))
            /\ emitted[N + 1].gets = N
            /\ IsSucceeded(Last(updates))
            /\ Last(updates).result_url = Last(pollResponses)["result_url"]

\* The scenario of the specification: created, started, done.
C6_Witness ==
    /\ DoneAtLastPoll
    /\ pollResponses = << [status |-> "created"], [status |-> "started"],
                          [status |-> "done", result_url |-> ResultUrl] >>
    /\ Len(updates) = 4

-----------------------------------------------------------------------------
(* C7 *)

\* C7: a poll response with status error, failed or rejected ends the
\* polling: no getJob call follows it, the generator goes to its last yield
\* and the stream ends with a terminal update that is not a success.
C7_FailureStatusStopsPolling ==
    \A n \in 1..Len(pollResponses) :
        StatusOf(pollResponses[n]) \in {"error", "failed", "rejected"} =>
            /\ n = Len(pollResponses)
            /\ getCalls = n
            /\ pc \in {"status_yield", "final_yield", "done"}
            /\ pc = "done" => IsTerminal(Last(updates)) /\ ~IsSucceeded(Last(updates))

-----------------------------------------------------------------------------
(* C8 *)

\* C8: no exception leaves the generator.  Once createJob or getJob has
\* raised, the generator is at its last yield or finished, the raising call
\* was the last network call (no retry), and the stream holds exactly one
\* terminal update, the "Error" update, as its last element.
C8_ExceptionBecomesErrorUpdate ==
    /\ pc # "raised"
    /\ e \in Exceptions =>
          /\ pc \in {"error_yield", "done"}
          /\ Terminals = {Len(updates)}
          /\ Last(updates) = ErrorUpdate(e)
          /\ Last(emitted).gets = getCalls
          /\ Last(emitted).creates = createCalls
          /\ createCalls = 1
          /\ getCalls \in {Len(pollResponses), Len(pollResponses) + 1}

\* A getJob call raises after an update was already emitted.
C8_Witness ==
    /\ pc = "done"
    /\ e \in Exceptions
    /\ ~e.has_response
    /\ Len(pollResponses) >= 1
    /\ Len(updates) = Len(pollResponses) + 1

-----------------------------------------------------------------------------
(* C9 *)

\* The poll responses received when update i was emitted.
ReceivedAt(i) ==
    {n \in 1..Len(pollResponses) : n <= emitted[i].gets}

\* C9: the log only grows from one update to the next, and every update of a
\* run whose createJob succeeded holds the creation response and every poll
\* response received so far.
C9_LogAppendOnly ==
    /\ \A i \in 1..(Len(updates) - 1) : IsPrefix(updates[i].log, updates[i + 1].log)
    /\ CreateSucceeded =>
          \A i \in 1..Len(updates) :
              /\ IsPrefix(CreationLog(talk), updates[i].log)
              /\ \A n \in ReceivedAt(i) :
                    \E j \in 1..Len(updates[i].log) :
                        updates[i].log[j] =
                            PollingEntry(StatusOf(pollResponses[n]), pollResponses[n])

-----------------------------------------------------------------------------
(* C10 *)

HasKey(d, k) == k \in DOMAIN d

\* No value of the dict is None or the empty string.
NoEmptyValue(d) ==
    \A k \in DOMAIN d : ~IsNone(d[k]) /\ (d[k].t = "str" => d[k].v # "")

\* C10: the payload handed to createJob has no key whose input was unset,
\* at any level: not the voice style, driver, webhook, stitch or persist,
\* nor the fields of the script variant that was not selected; and no key
\* is present with a None or empty value.
C10_OmissionInvariant ==
    pc = "create_wait" =>
        LET script == payload["script"].v
            config == payload["config"].v
        IN  /\ ~Truthy(args.driver_url) => ~HasKey(payload, "driver_url")
            /\ ~Truthy(args.webhook) => ~HasKey(config, "webhook")
            /\ ~args.stitch => ~HasKey(config, "stitch")
            /\ ~args.persist => ~HasKey(config, "persist")
            /\ (~Truthy(args.voice_style) /\ HasKey(script, "provider")) =>
                  ~HasKey(script["provider"].v, "voice_config")
            /\ args.script_type = "text" => ~HasKey(script, "audio_url")
            /\ args.script_type = "audio" =>
                  ~HasKey(script, "input") /\ ~HasKey(script, "provider")
            /\ NoEmptyValue(payload)
            /\ NoEmptyValue(script)
            /\ NoEmptyValue(config)
            /\ HasKey(script, "provider") => NoEmptyValue(script["provider"].v)

-----------------------------------------------------------------------------
(* C14 *)

\* C14: every getJob response has its own status update, emitted before the
\* next getJob call and before any terminal update: the n-th update carries
\* the status of the n-th response, and the stream has no other non-terminal
\* update.
C14_StatusUpdatePerPoll ==
    /\ \A n \in 1..Len(pollResponses) :
          /\ Len(updates) >= n
          /\ updates[n].status = StatusText("Status", StatusOf(pollResponses[n]))
          /\ updates[n].talk_id = talk_id
          /\ emitted[n].gets = n
    /\ \A i \in 1..Len(updates) :
          ~IsTerminal(updates[i]) => i <= Len(pollResponses)

C14_Witness ==
    /\ Len(pollResponses) = 3
    /\ StatusOf(pollResponses[1]) = "created"
    /\ StatusOf(pollResponses[2]) = "started"
    /\ StatusOf(pollResponses[3]) = "unknown"
    /\ Len(updates) = 3

-----------------------------------------------------------------------------
(* C15 *)

DoneWithoutUrl(resp) ==
    StatusOf(resp) = "done" /\ Get(resp, "result_url", None) \in {None, ""}

\* C15: a done response without a result_url, or with an empty one, ends the
\* run at that poll as a failure: no getJob call follows, no success update
\* is ever emitted, and the terminal update has an empty result URL and a
\* hidden video.
C15_DoneWithoutUrlFails ==
    \A n \in 1..Len(pollResponses) :
        DoneWithoutUrl(pollResponses[n]) =>
            /\ n = Len(pollResponses)
            /\ getCalls = n
            /\ pc \in {"status_yield", "final_yield", "done"}
            /\ \A i \in 1..Len(updates) : ~IsSucceeded(updates[i])
            /\ pc \in {"final_yield", "done"} =>
                  /\ IsTimedOutOrFailed(Last(updates))
                  /\ Last(updates).result_url = ""
                  /\ Last(updates).video = HiddenVideo

C15_Witness ==
    /\ pc = "done"
    /\ Len(pollResponses) >= 2
    /\ StatusOf(Last(pollResponses)) = "done"
    /\ Get(Last(pollResponses), "result_url", None) = ""
    /\ IsTimedOutOrFailed(Last(updates))

-----------------------------------------------------------------------------
(* C16 *)

GetRequests == SelectSeq(requests, LAMBDA r : r.method = "GET")

\* C16: every getJob call starts at an elapsed time below the deadline, and
\* two consecutive getJob calls start at least one poll interval apart.
C16_PollsSpacedBeforeDeadline ==
    \A i \in 1..Len(GetRequests) :
        /\ GetRequests[i].at - start_time < timeout
        /\ i > 1 => GetRequests[i].at - GetRequests[i - 1].at >= poll_interval

C16_Witness ==
    /\ Len(GetRequests) = 3
    /\ GetRequests[3].at - GetRequests[1].at = 2 * poll_interval

-----------------------------------------------------------------------------
(* C17 *)

\* C17: the script of the submitted payload holds one variant: input and
\* provider and no audio_url for a text script, audio_url and neither input
\* nor provider for an audio script.
C17_OneScriptVariant ==
    pc = "create_wait" =>
        LET script == payload["script"].v
        IN  /\ args.script_type = "text" =>
                  /\ HasKey(script, "input") /\ HasKey(script, "provider")
                  /\ ~HasKey(script, "audio_url")
            /\ args.script_type = "audio" =>
                  /\ HasKey(script, "audio_url")
                  /\ ~HasKey(script, "input") /\ ~HasKey(script, "provider")

-----------------------------------------------------------------------------
(* C20 *)

\* C20: with no API key (empty, or missing from the configuration) a run
\* emits the one "Error: No API key" update and ends without any request.
C20_NoCredentialNoRequest ==
    (~Truthy(API_KEY) /\ pc # "start") =>
        /\ pc \in {"nokey_yield", "done"}
        /\ updates = << NoKeyUpdate >>
        /\ requests = << >>
        /\ createCalls = 0
        /\ getCalls = 0

C20_Witness ==
    /\ pc = "done"
    /\ API_KEY = ""
    /\ Len(updates) = 1

-----------------------------------------------------------------------------
(* C12 *)

\* C12: once the consumer has closed the generator after some update, the
\* run is over: the stream holds exactly the updates the consumer had then,
\* no request was issued after the last of them, and the close was not
\* turned into an exception caught by the handler.
C12_CloseStopsRun ==
    closedAfter > 0 =>
        /\ pc = "closed"
        /\ Len(updates) = closedAfter
        /\ Last(emitted).gets = getCalls
        /\ Last(emitted).creates = createCalls
        /\ Len(requests) = createCalls + getCalls
        /\ e # GeneratorExit

\* Abandoned during the polling, after the second status update.
C12_Witness ==
    /\ pc = "closed"
    /\ closedAfter = 2
    /\ ~IsTerminal(Last(updates))
    /\ getCalls = 2

-----------------------------------------------------------------------------
(* C18 *)

\* C18: whatever save_config_handler does while a run is under way, every
\* request of the run carries the credential of the run's first request and
\* goes to the base URL of the run's first request.
C18_SameCredentialAndBaseUrl ==
    \A i \in 1..Len(requests) :
        /\ requests[i].auth = requests[1].auth
        /\ requests[i].base = requests[1].base

-----------------------------------------------------------------------------
(* C13 *)

SavedPair == [key |-> last_save.key, url |-> last_save.url]

SaveStep == last_save'.n = last_save.n + 1

\* C13: after a successful save, load_config yields exactly the saved pair
\* and API_KEY and BASE_URL equal the saved values; a failed save leaves the
\* file and both in-process values as they were before it.
C13_SaveRoundTripOrNoChange ==
    [][SaveStep =>
        /\ last_save'.outcome = "saved" =>
              /\ load_config(config_file') = SavedPair'
              /\ API_KEY' = last_save'.key
              /\ BASE_URL' = last_save'.url
        /\ last_save'.outcome # "saved" =>
              /\ config_file' = config_file
              /\ API_KEY' = API_KEY
              /\ BASE_URL' = BASE_URL]_vars

-----------------------------------------------------------------------------
(* C11, C19 *)

LastFetch == Last(dl_history)

Returned == dl_pc = "idle" /\ Len(dl_history) > 0

\* C11: when download_video returns after a failure that came after the
\* target file was opened, no file is left at the target path and no local
\* path is returned; when it returns after a success, the complete file
\* of this call is at the target path and that path is returned.
C11_FailedFetchLeavesNoFile ==
    Returned =>
        /\ LastFetch.outcome = "failed" /\ LastFetch.opened =>
              /\ LastFetch.path \notin DOMAIN files
              /\ dl_result.path = NoPath
        /\ LastFetch.outcome = "ok" =>
              /\ LastFetch.path \in DOMAIN files
              /\ files[LastFetch.path].complete
              /\ files[LastFetch.path].by = Len(dl_history)
              /\ dl_result.path = LastFetch.path

C11_Witness ==
    /\ Returned
    /\ LastFetch.outcome = "failed"
    /\ LastFetch.opened
    /\ \E i \in 1..Len(dl_history) : dl_history[i].outcome = "ok"

\* C19: any two calls of download_video that open a target file open
\* different paths.
C19_DistinctTargetPaths ==
    \A i, j \in 1..Len(dl_history) :
        i # j /\ dl_history[i].opened /\ dl_history[j].opened =>
            dl_history[i].path # dl_history[j].path

-----------------------------------------------------------------------------
(* C23 *)

\* The poll response an update was made from, if any
PollBehind(i) == pollResponses[emitted[i].gets]

HasPollBehind(i) == ~IsTerminal(updates[i]) \/ IsSucceeded(updates[i])

\* C23: an update carries a result URL only when it was made from a poll
\* response whose status is done, and every terminal update other than the
\* success update carries an empty result URL and a hidden video.
C23_ResultUrlOnlyWhenDone ==
    \A i \in 1..Len(updates) :
        /\ updates[i].result_url # "" =>
              HasPollBehind(i) /\ StatusOf(PollBehind(i)) = "done"
        /\ IsTerminal(updates[i]) /\ ~IsSucceeded(updates[i]) =>
              updates[i].result_url = "" /\ updates[i].video = HiddenVideo

-----------------------------------------------------------------------------
(* C24 *)

NoStatus(resp) == "status" \notin DOMAIN resp

NeverAStatus ==
    /\ Len(pollResponses) > 0
    /\ \A n \in 1..Len(pollResponses) : NoStatus(pollResponses[n])
    /\ e = NoException

\* C24: an update made from a poll response without a status field reports
\* "unknown"; after such a response the loop sleeps and tests the deadline
\* again; and a run all of whose poll responses lack the status field ends
\* only with the timed-out update, emitted when the deadline has passed.
C24_NoStatusKeepsPolling ==
    /\ \A i \in 1..Len(updates) :
          ~IsTerminal(updates[i]) /\ NoStatus(PollBehind(i)) =>
              updates[i].status = StatusText("Status", "unknown")
    /\ pc = "loop" /\ getCalls > 0 /\ NoStatus(Last(pollResponses)) =>
          clock = Last(emitted).at + poll_interval
    /\ NeverAStatus =>
          /\ Len(updates) = Len(pollResponses) + (IF pc \in TerminalPcs THEN 1 ELSE 0)
          /\ pc \in TerminalPcs =>
                /\ Last(updates) = FinalUpdate(talk_id, "unknown", response_log)
                /\ Last(emitted).at - start_time >= timeout

C24_Witness ==
    /\ NeverAStatus
    /\ pc = "final_yield"
    /\ getCalls >= 2

-----------------------------------------------------------------------------
(* C22 *)

\* A call of download_video returns a failure in this step
FetchFails ==
    /\ Len(dl_history') > 0
    /\ dl_pc' = "idle"
    /\ \/ dl_pc # "idle" /\ Last(dl_history').outcome = "failed"
       \/ Len(dl_history') = Len(dl_history) + 1
          /\ Last(dl_history').outcome = "invalid"

\* C22: a call of download_video that fails removes no file that a call has
\* completely written, and one that fails before it opened its target file
\* removes no file at all.
C22_FailureRemovesOnlyOwnFile ==
    [][FetchFails =>
        /\ \A p \in DOMAIN files : files[p].complete => p \in DOMAIN files'
        /\ ~Last(dl_history').opened => files' = files]_vars

-----------------------------------------------------------------------------
(* C25 *)

\* C25: a finished download_handler has emitted at least one update; for an
\* empty URL it emitted the "No URL provided" update and never called
\* download_video; for any other URL it emitted the "Downloading..." update
\* and then exactly one of "Download Complete" and "Download Failed".
C25_HandlerReportsOutcome ==
    dh_pc = "done" =>
        /\ Len(dh_updates) >= 1
        /\ dh_url = NoUrl => dh_updates = << NoUrlUpdate >> /\ dh_calls = 0
        /\ dh_url # NoUrl =>
              /\ Len(dh_updates) = 2
              /\ dh_updates[1] = DownloadingUpdate
              /\ dh_updates[2].download_btn \in {"Download Complete", "Download Failed"}

-----------------------------------------------------------------------------
(* C21 *)

\* The ids a generator has sent getJob requests for
PolledIds(reqs) == {reqs[i].path[2] : i \in {n \in 1..Len(reqs) : reqs[n].method = "GET"}}

OwnId(created) == {Get(created, "id", None)}

\* C21: of two create_talk runs, each sends getJob requests only for the id
\* its own createJob call returned, so no id is polled by both runs.
C21_EachRunPollsOwnId ==
    otherRun # NotStarted =>
        /\ PolledIds(requests) \subseteq OwnId(talk)
        /\ PolledIds(otherRun.requests) \subseteq OwnId(otherRun.talk)
        /\ PolledIds(requests) \cap PolledIds(otherRun.requests) = {}

C21_Witness ==
    /\ otherRun # NotStarted
    /\ PolledIds(requests) # {}
    /\ PolledIds(otherRun.requests) # {}
    /\ pc = "get_wait"
    /\ otherRun.pc = "get_wait"

====
